---- MODULE Spec2Model ----
(***************************************************************************)
(* A model of watcher.py: one page is fetched, the text between two        *)
(* markers is extracted and normalised, its digest is compared with the    *)
(* persisted digest, both state files are rewritten and three outputs are  *)
(* appended to the GitHub Actions output file.                             *)
(*                                                                         *)
(* Text is a sequence of characters.  The two markers and every tag are    *)
(* single characters of the model: neither marker overlaps itself or the   *)
(* other ('C' and 'P' occur once, at the front), so a text splits into     *)
(* marker occurrences and other characters in exactly one way.             *)
(* An optional value (str | None) is <<>> for None and <<v>> for v.         *)
(***************************************************************************)
EXTENDS Integers, Sequences, FiniteSets, TLC

URL == "https://uni-freiburg.de/en/studies/during-your-studies/apis/"
HASH_FILE == ".state/current_social_events.sha256"
TEXT_FILE == ".state/current_social_events.txt"
START_MARKER == "Current social events"
END_MARKER == "Past events"

\* The delimiter set_github_output writes around every value.
EOF == "__EOF__"

SP == " "
TAB == "\t"
NL == "\n"
\* What str.strip() removes (the whitespace the model's texts are made of).
Whitespace == {SP, TAB, NL}
\* The tags of the model's markup; html.parser turns each into an element edge.
Tags == {"<div>", "</div>", "<p>", "</p>"}

None == << >>
Some(v) == << v >>

----------------------------------------------------------------------------
(* Python's str operations on sequences of characters.                     *)

RECURSIVE LStrip(_)
LStrip(s) == IF s # << >> /\ Head(s) \in Whitespace THEN LStrip(Tail(s)) ELSE s

RECURSIVE RStrip(_)
RStrip(s) ==
  IF s # << >> /\ s[Len(s)] \in Whitespace
  THEN RStrip(SubSeq(s, 1, Len(s) - 1))
  ELSE s

\* str.strip()
Strip(s) == RStrip(LStrip(s))

\* marker in text
Contains(text, marker) == \E i \in 1..Len(text) : text[i] = marker

\* text.index(marker, from): the first position after `from` holding the
\* marker, 0 when there is none (Python raises ValueError there).
Index(text, marker, from) ==
  IF \E i \in (from + 1)..Len(text) : text[i] = marker
  THEN CHOOSE i \in (from + 1)..Len(text) :
         /\ text[i] = marker
         /\ \A k \in (from + 1)..(i - 1) : text[k] # marker
  ELSE 0

\* The length of the longest run of characters of `set` that starts s.
RECURSIVE RunLen(_, _)
RunLen(s, set) ==
  IF s # << >> /\ Head(s) \in set THEN 1 + RunLen(Tail(s), set) ELSE 0

Drop(s, n) == SubSeq(s, n + 1, Len(s))

\* A plausible slip: one blank or tab before the line break, not a run ([ \t]\n).
RECURSIVE SubTrailingOne(_)
SubTrailingOne(s) ==
  IF s = << >> THEN << >>
  ELSE IF Head(s) \in {SP, TAB} /\ Len(s) >= 2 /\ s[2] = NL
       THEN << NL >> \o SubTrailingOne(Drop(s, 2))
       ELSE << Head(s) >> \o SubTrailingOne(Tail(s))

\* re.sub(r"[ \t]+\n", "\n", s): every longest run of blanks and tabs that a
\* line break follows goes, the line break stays.
RECURSIVE SubTrailing(_)
SubTrailing(s) ==
  IF s = << >> THEN << >>
  ELSE LET n == RunLen(s, {SP, TAB})
       IN IF n > 0 /\ Len(s) > n /\ s[n + 1] = NL
          THEN << NL >> \o SubTrailing(Drop(s, n + 1))
          ELSE IF n > 0
               THEN SubSeq(s, 1, n) \o SubTrailing(Drop(s, n))
               ELSE << Head(s) >> \o SubTrailing(Tail(s))

\* A plausible slip: \n{4,} for \n{3,}.
RECURSIVE SubNewlinesFour(_)
SubNewlinesFour(s) ==
  IF s = << >> THEN << >>
  ELSE LET n == RunLen(s, {NL})
       IN IF n >= 4
          THEN << NL, NL >> \o SubNewlinesFour(Drop(s, n))
          ELSE IF n > 0
               THEN SubSeq(s, 1, n) \o SubNewlinesFour(Drop(s, n))
               ELSE << Head(s) >> \o SubNewlinesFour(Tail(s))

\* re.sub(r"\n{3,}", "\n\n", s): a run of three or more line breaks becomes two.
RECURSIVE SubNewlines(_)
SubNewlines(s) ==
  IF s = << >> THEN << >>
  ELSE LET n == RunLen(s, {NL})
       IN IF n >= 3
          THEN << NL, NL >> \o SubNewlines(Drop(s, n))
          ELSE IF n > 0
               THEN SubSeq(s, 1, n) \o SubNewlines(Drop(s, n))
               ELSE << Head(s) >> \o SubNewlines(Tail(s))

----------------------------------------------------------------------------
(* BeautifulSoup(html, "html.parser").get_text("\n", strip=True): the text *)
(* nodes are the longest runs of characters between tags; each is          *)
(* stripped, the empty ones are dropped, the rest are joined with "\n".    *)

RECURSIVE TextNodes(_)
TextNodes(html) ==
  IF html = << >> THEN << >>
  ELSE IF Head(html) \in Tags THEN TextNodes(Tail(html))
       ELSE LET n == IF \E i \in 1..Len(html) : html[i] \in Tags
                     THEN (CHOOSE i \in 1..Len(html) :
                             html[i] \in Tags /\ \A k \in 1..(i - 1) : html[k] \notin Tags) - 1
                     ELSE Len(html)
            IN << SubSeq(html, 1, n) >> \o TextNodes(Drop(html, n))

RECURSIVE Join(_)
Join(nodes) ==
  IF nodes = << >> THEN << >>
  ELSE IF Len(nodes) = 1 THEN nodes[1]
       ELSE nodes[1] \o << NL >> \o Join(Tail(nodes))

get_text(html) ==
  LET nodes == TextNodes(html)
  IN Join(SelectSeq([i \in 1..Len(nodes) |-> Strip(nodes[i])], LAMBDA t : t # << >>))

----------------------------------------------------------------------------
(* extract_current_social_events: its result is a block, or the exception  *)
(* that leaves it.                                                         *)

Raise(kind) == [ok |-> FALSE, error |-> kind, block |-> << >>]
Return(b) == [ok |-> TRUE, error |-> "", block |-> b]

\* Lines 41-53, on the flattened text.
ExtractText(full_text) ==
  IF ~Contains(full_text, START_MARKER) \/ ~Contains(full_text, END_MARKER)
  THEN Raise("RuntimeError")
  ELSE LET start == Index(full_text, START_MARKER, 0)
           end == Index(full_text, END_MARKER, start)
       IN IF end = 0
          THEN Raise("ValueError")
          ELSE Return(Strip(SubNewlines(SubTrailing(
                        Strip(SubSeq(full_text, start + 1, end - 1))))))

extract_current_social_events(html) == ExtractText(get_text(html))

\* The characters a digest is computed over, in a fixed order.
Chars == << SP, TAB, NL, "x", "Concert", "Friday", EOF, START_MARKER, END_MARKER >>
Code(c) == CHOOSE i \in 1..Len(Chars) : Chars[i] = c

\* The bytes of s read as one number: its digits are the characters' codes,
\* none of them 0, so two texts have the same number only when they are equal.
RECURSIVE Encode(_)
Encode(s) == IF s = << >> THEN 0 ELSE Code(Head(s)) + (Len(Chars) + 1) * Encode(Tail(s))

\* sha256(s): a digest is one word with no whitespace in it (64 hex digits in
\* the code), a function of the text alone.
sha256(s) == << ToString(Encode(s)) >>

\* What set_github_output appends for one output.
Entry(name, value) == << name, "<<", EOF, NL >> \o value \o << NL, EOF, NL >>

----------------------------------------------------------------------------
(* The pages the watched URL serves in the runs of the model.              *)

Scenario ==
  << "<div>", START_MARKER, "</div>", "<p>", "Concert", SP, SP, NL, NL, NL, NL,
     "Friday", "</p>", "<div>", END_MARKER, "</div>" >>
\* The same events, laid out differently.
Reformatted ==
  << "<div>", START_MARKER, NL, "</div>", "<p>", SP, "Concert", TAB, NL, NL, NL,
     "Friday", NL, "</p>", "<div>", END_MARKER, "</div>" >>
WithDelimiter ==
  << "<div>", START_MARKER, "</div>", "<p>", "x", NL, EOF, "</p>", "<div>",
     END_MARKER, "</div>" >>
NoEnd == << "<div>", START_MARKER, "</div>", "<p>", "x", "</p>" >>
EndFirst ==
  << "<div>", END_MARKER, "</div>", "<div>", START_MARKER, "</div>", "<p>", "x", "</p>" >>

Pages == {Scenario, Reformatted, WithDelimiter, NoEnd, EndFirst}

\* The runs of one behaviour.
MaxRuns == 3

\* Every markup of at most MaxLen characters over these six.
MaxLen == 7
MarkupChars == {START_MARKER, END_MARKER, "x", SP, NL, "<p>"}

----------------------------------------------------------------------------
VARIABLES
  pc,         \* where the process is: "start", the last line of main done, "exited"
  html, block, h, prev, changed,   \* main's locals (optional until assigned)
  exit_code,  \* sys.exit's argument, None while the process runs
  error,      \* the exception that ended the run, "" when none
  fs,         \* the state directory: path -> content, None when no such file
  environ,    \* os.environ.get("GITHUB_OUTPUT"): None or the path
  output,     \* the content of the file GITHUB_OUTPUT names
  fetches,    \* requests.get calls of this run
  runs,       \* processes started so far
  fs0, output0,   \* history: fs and output when this run started
  last_ok,    \* history: the block of the latest earlier run that exited 0
  last_emit   \* history: the block of the latest earlier run that emitted `changed`

vars == << pc, html, block, h, prev, changed, exit_code, error, fs, environ, output,
           fetches, runs, fs0, output0, last_ok, last_emit >>

locals == << html, block, h, prev, changed >>
history == << fs0, output0, last_ok, last_emit >>

OUT_PATH == "/github/output"

Init ==
  /\ pc = "start"
  /\ html = None /\ block = None /\ h = None /\ prev = None /\ changed = None
  /\ exit_code = None
  /\ error = ""
  /\ fs = [p \in {HASH_FILE, TEXT_FILE} |-> None]
  /\ environ \in {None, Some(OUT_PATH)}
  /\ output = << >>
  /\ fetches = 0
  /\ runs = 1
  /\ fs0 = fs /\ output0 = output
  /\ last_ok = None
  /\ last_emit = None

\* A plausible slip: the handler prints the error and forgets sys.exit(1).
FailExitZero(kind) ==
  /\ pc' = "exited"
  /\ exit_code' = Some(0)
  /\ error' = kind

\* Lines 105-110: an exception leaves main, the handler prints it and exits 1.
Fail(kind) ==
  /\ pc' = "exited"
  /\ exit_code' = Some(1)
  /\ error' = kind

\* fetch_html (line 80): one GET; a transport error or a non-2xx status raises.
Fetch ==
  /\ pc = "start"
  /\ fetches' = fetches + 1
  /\ \/ /\ \E page \in Pages : html' = Some(page)
        /\ pc' = "fetched"
        /\ UNCHANGED << exit_code, error >>
     \/ /\ Fail("RequestException")
        /\ UNCHANGED html
  /\ UNCHANGED << block, h, prev, changed, fs, environ, output, runs, history >>

\* Line 81.
Extract ==
  /\ pc = "fetched"
  /\ LET r == extract_current_social_events(html[1])
     IN IF r.ok
        THEN /\ block' = Some(r.block)
             /\ pc' = "extracted"
             /\ UNCHANGED << exit_code, error >>
        ELSE /\ Fail(r.error)
             /\ UNCHANGED block
  /\ UNCHANGED << html, h, prev, changed, fs, environ, output, fetches, runs, history >>

\* read_text (lines 60-61).
read_text(path) == IF fs[path] # None THEN Some(Strip(fs[path][1])) ELSE None

\* Lines 82-86: the digest, the persisted digest, the comparison.
Compare ==
  /\ pc = "extracted"
  /\ \/ /\ h' = Some(sha256(block[1]))
        /\ prev' = read_text(HASH_FILE)
        /\ changed' = Some(prev' # h')
        /\ pc' = "compared"
        /\ UNCHANGED << exit_code, error >>
     \/ /\ Fail("OSError")
        /\ UNCHANGED << h, prev, changed >>
  /\ UNCHANGED << html, block, fs, environ, output, fetches, runs, history >>

\* write_text (lines 64-65): the file is replaced by the content, or
\* open(path, "w") raises and the file is as it was.
write_text(path, content, next) ==
  \/ /\ fs' = [fs EXCEPT ![path] = Some(content)]
     /\ pc' = next
     /\ UNCHANGED << exit_code, error >>
  \/ /\ Fail("OSError")
     /\ UNCHANGED fs

\* Line 89.
WriteHash ==
  /\ pc = "compared"
  /\ write_text(HASH_FILE, h[1], "wrote_hash")
  /\ UNCHANGED << locals, environ, output, fetches, runs, history >>

\* Line 90.
WriteText ==
  /\ pc = "wrote_hash"
  /\ write_text(TEXT_FILE, block[1], "wrote_text")
  /\ UNCHANGED << locals, environ, output, fetches, runs, history >>

\* set_github_output (lines 68-76): nothing without GITHUB_OUTPUT; else the
\* entry is appended, or open(out_path, "a") raises.
set_github_output(name, value, next) ==
  \/ /\ environ = None
     /\ pc' = next
     /\ UNCHANGED << output, exit_code, error >>
  \/ /\ environ # None
     /\ output' = output \o Entry(name, value)
     /\ pc' = next
     /\ UNCHANGED << exit_code, error >>
  \/ /\ environ # None
     /\ Fail("OSError")
     /\ UNCHANGED output

\* Line 92.
EmitChanged ==
  /\ pc = "wrote_text"
  /\ set_github_output("changed", IF changed[1] THEN << "true" >> ELSE << "false" >>,
                       "emitted_changed")
  /\ UNCHANGED << locals, fs, environ, fetches, runs, history >>

\* Line 93.
EmitUrl ==
  /\ pc = "emitted_changed"
  /\ set_github_output("url", << URL >>, "emitted_url")
  /\ UNCHANGED << locals, fs, environ, fetches, runs, history >>

\* Line 94.
EmitContent ==
  /\ pc = "emitted_url"
  /\ set_github_output("content", block[1], "emitted_content")
  /\ UNCHANGED << locals, fs, environ, fetches, runs, history >>

\* Lines 96-101 and 106: main returns 0 whatever `changed` is.
Return0 ==
  /\ pc = "emitted_content"
  /\ pc' = "exited"
  /\ exit_code' = Some(0)
  /\ UNCHANGED << locals, error, fs, environ, output, fetches, runs, history >>

\* Whether the run that just exited appended its `changed` entry.
Emitted == Len(output) > Len(output0)

\* The scheduler starts the next run: a new process, with the files as the
\* last one left them.
Start ==
  /\ pc = "exited"
  /\ runs < MaxRuns
  /\ runs' = runs + 1
  /\ pc' = "start"
  /\ html' = None /\ block' = None /\ h' = None /\ prev' = None /\ changed' = None
  /\ exit_code' = None
  /\ error' = ""
  /\ fetches' = 0
  /\ fs0' = fs
  /\ output0' = output
  /\ last_ok' = IF exit_code = Some(0) THEN block ELSE last_ok
  /\ last_emit' = IF Emitted THEN block ELSE last_emit
  /\ UNCHANGED << fs, environ, output >>

Next ==
  \/ Fetch \/ Extract \/ Compare \/ WriteHash \/ WriteText
  \/ EmitChanged \/ EmitUrl \/ EmitContent \/ Return0 \/ Start

Spec == Init /\ [][Next]_vars

\* The extractor alone, on every markup within the bound: the state after a
\* fetch that returned it.
InitExtract ==
  /\ pc = "fetched"
  /\ \E n \in 0..MaxLen : \E m \in [1..n -> MarkupChars] : html = Some(m)
  /\ block = None /\ h = None /\ prev = None /\ changed = None
  /\ exit_code = None
  /\ error = ""
  /\ fs = [p \in {HASH_FILE, TEXT_FILE} |-> None]
  /\ environ = None
  /\ output = << >>
  /\ fetches = 1
  /\ runs = 1
  /\ fs0 = fs /\ output0 = output
  /\ last_ok = None
  /\ last_emit = None

NextExtract == Extract

SpecExtract == InitExtract /\ [][NextExtract]_vars

----------------------------------------------------------------------------
(* Properties.                                                             *)

\* The run is over and exited 0 / exited 1.
Succeeded == pc = "exited" /\ exit_code = Some(0)
Failed == pc = "exited" /\ exit_code = Some(1)

\* s.split("\n")
RECURSIVE SplitLines(_)
SplitLines(s) ==
  LET i == Index(s, NL, 0)
  IN IF i = 0 THEN << s >> ELSE << SubSeq(s, 1, i - 1) >> \o SplitLines(Drop(s, i))

\* A line without the blanks and tabs at its end.
RECURSIVE RStripBlanks(_)
RStripBlanks(line) ==
  IF line # << >> /\ line[Len(line)] \in {SP, TAB}
  THEN RStripBlanks(SubSeq(line, 1, Len(line) - 1))
  ELSE line

\* The lines without every empty line that follows an empty line.
RECURSIVE Squeeze(_)
Squeeze(lines) ==
  IF Len(lines) < 2 THEN lines
  ELSE IF lines[1] = << >> /\ lines[2] = << >>
       THEN Squeeze(Tail(lines))
       ELSE << lines[1] >> \o Squeeze(Tail(lines))

\* The characters of s that are not whitespace, in order.
NonWhitespace(s) == SelectSeq(s, LAMBDA c : c \notin Whitespace)

\* The flattened text of the fetched page.
FullText == get_text(html[1])

\* The flattened text holds the start marker and, later, the end marker.
MarkersInOrder ==
  LET t == FullText
  IN \E i, j \in 1..Len(t) : i < j /\ t[i] = START_MARKER /\ t[j] = END_MARKER

\* The text strictly between the first start marker and the first end marker
\* after it.
Between ==
  LET t == FullText
      i == CHOOSE i \in 1..Len(t) :
             t[i] = START_MARKER /\ \A k \in 1..(i - 1) : t[k] # START_MARKER
      j == CHOOSE j \in (i + 1)..Len(t) :
             t[j] = END_MARKER /\ \A k \in (i + 1)..(j - 1) : t[k] # END_MARKER
  IN SubSeq(t, i + 1, j - 1)

\* The spec's MarkerNotFoundError is the error raised at line 42.
MarkerNotFoundError == "RuntimeError"

\* C1: in every sequence of runs, `changed` is true on a run that finds no
\* digest file, and on a later run it is true exactly when the run's block
\* differs from the block of the most recent earlier successful run.
C1_ChangedIffDiffersFromLastSuccess ==
  Succeeded =>
    /\ fs0[HASH_FILE] = None => changed = Some(TRUE)
    /\ last_ok # None => (changed = Some(TRUE) <=> block # last_ok)

\* C2: a run whose block is byte-identical to the persisted block reports
\* changed = false and leaves the digest file and the text file with the
\* content they had before the run.
C2_SameBlockLeavesStateAlone ==
  (Succeeded /\ fs0[TEXT_FILE] = block) => (changed = Some(FALSE) /\ fs = fs0)

\* C3: extraction fails with MarkerNotFoundError and returns no block when
\* the start marker is absent, when the end marker is absent, and when no
\* end marker occurs after the start marker.
C3_MarkerNotFoundInAllThreeCases ==
  (pc # "fetched" /\ ~MarkersInOrder) =>
    (Failed /\ error = MarkerNotFoundError /\ block = None)

\* C4: a run in which the fetch fails or a marker is missing made exactly one
\* fetch attempt, exits 1, leaves both state files untouched and appends
\* nothing to the sink; a run that no exception ended exits 0, whether
\* `changed` is true or false.
C4_EarlyFailureAbortsCleanly ==
  pc = "exited" =>
    /\ error \in {"RequestException", "RuntimeError", "ValueError"} =>
         (fetches = 1 /\ exit_code = Some(1) /\ fs = fs0 /\ output = output0)
    /\ error = "" => (exit_code = Some(0) /\ changed \in {Some(TRUE), Some(FALSE)})
    /\ error # "" => exit_code = Some(1)

\* A marker is missing in a run that follows a successful one: the files and
\* the sink of the earlier run are there to be left alone.
C4_Witness ==
  /\ Failed /\ error = "RuntimeError"
  /\ last_ok # None /\ Len(output0) > 20
  /\ fs0[HASH_FILE] = Some(sha256(last_ok[1])) /\ fs0[TEXT_FILE] = last_ok

\* C5: the extracted block is never empty: extraction returns a block that is
\* non-empty after trimming, or it fails.
C5_BlockNeverEmpty == block # None => Strip(block[1]) # << >>

\* C6: when the flattened text holds the start marker and later the end
\* marker, extraction returns the text strictly between the first start
\* marker and the first end marker after it, normalised: trimmed, every line
\* without its trailing blanks and tabs, every run of blank lines cut to one;
\* so no line break follows a blank or tab, the block neither starts nor ends
\* with whitespace, it has no three line breaks in a row, and its other
\* characters are those of the text between the markers, in order.
C6_ExtractReturnsNormalizedBetween ==
  (pc # "fetched" /\ MarkersInOrder) =>
    /\ pc = "extracted"
    /\ LET b == block[1]
           between == Between
           lines == SplitLines(Strip(between))
       IN /\ b = Join(Squeeze([i \in 1..Len(lines) |-> RStripBlanks(lines[i])]))
          /\ \A k \in 1..(Len(b) - 1) : ~(b[k] \in {SP, TAB} /\ b[k + 1] = NL)
          /\ b # << >> => (b[1] \notin Whitespace /\ b[Len(b)] \notin Whitespace)
          /\ \A k \in 1..(Len(b) - 2) : ~(b[k] = NL /\ b[k + 1] = NL /\ b[k + 2] = NL)
          /\ NonWhitespace(b) = NonWhitespace(between)

\* Three line breaks between two words, which the block holds as two.
C6_Witness ==
  /\ pc = "extracted"
  /\ Between = << "x", NL, NL, NL, "x" >>
  /\ block = Some(<< "x", NL, NL, "x" >>)

\* C7 as stated: on the first run, the scenario markup gives the block
\* "Concert\nFriday", changed = true, and the two files hold its digest and it.
C7_ScenarioSingleLineBreak ==
  (runs = 1 /\ html = Some(Scenario) /\ Succeeded) =>
    /\ block = Some(<< "Concert", NL, "Friday" >>)
    /\ changed = Some(TRUE)
    /\ fs[HASH_FILE] = Some(sha256(<< "Concert", NL, "Friday" >>))
    /\ fs[TEXT_FILE] = Some(<< "Concert", NL, "Friday" >>)

\* C7, amended: on the first run, the scenario markup gives the block
\* "Concert\n\nFriday" (the four line breaks inside the paragraph are cut to
\* two), changed = true, and the two files are created holding the digest of
\* this block and this block.
C7_ScenarioBlankLine ==
  (runs = 1 /\ html = Some(Scenario) /\ Succeeded) =>
    /\ block = Some(<< "Concert", NL, NL, "Friday" >>)
    /\ changed = Some(TRUE)
    /\ fs0 = [p \in {HASH_FILE, TEXT_FILE} |-> None]
    /\ fs[HASH_FILE] = Some(sha256(<< "Concert", NL, NL, "Friday" >>))
    /\ fs[TEXT_FILE] = Some(<< "Concert", NL, NL, "Friday" >>)

C7_Witness ==
  /\ runs = 1 /\ html = Some(Scenario) /\ Succeeded
  /\ fs[TEXT_FILE] = Some(<< "Concert", NL, NL, "Friday" >>)

\* The lines the run appended to the sink.
Appended == SplitLines(Drop(output, Len(output0)))
\* The position of the first line after `from` equal to `line`, 0 if none.
LineIndex(lines, line, from) ==
  IF \E i \in (from + 1)..Len(lines) : lines[i] = line
  THEN CHOOSE i \in (from + 1)..Len(lines) :
         lines[i] = line /\ \A k \in (from + 1)..(i - 1) : lines[k] # line
  ELSE 0

\* C8: with the sink configured, a successful run appends to it, after what
\* it held, the entries `changed`, `url`, `content` in this order, each as
\* name<<__EOF__ / value / __EOF__; and a reader that takes the lines between
\* the content<<__EOF__ line and the next __EOF__ line recovers the block and
\* finds nothing after them.
C8_ThreeEntriesContentRecoverable ==
  (Succeeded /\ environ # None) =>
    /\ SubSeq(output, 1, Len(output0)) = output0
    /\ Len(Appended) >= 9
    /\ SubSeq(Appended, 1, 7) =
         << << "changed", "<<", EOF >>,
            IF changed[1] THEN << "true" >> ELSE << "false" >>,
            << EOF >>,
            << "url", "<<", EOF >>, << URL >>, << EOF >>,
            << "content", "<<", EOF >> >>
    /\ LET first == LineIndex(Appended, << "content", "<<", EOF >>, 0)
           last == LineIndex(Appended, << EOF >>, first)
       IN /\ last > first
          /\ Join(SubSeq(Appended, first + 1, last - 1)) = block[1]
          /\ SubSeq(Appended, last + 1, Len(Appended)) = << << >> >>

\* C9: a run that exits 1 leaves both persisted files as they were before it,
\* so a successful run whose block differs from the block of the last run
\* that emitted `changed` emits changed = true.
C9_FailedRunLeavesStateAlone ==
  /\ Failed => fs = fs0
  /\ (Succeeded /\ last_emit # None /\ block # last_emit) => changed = Some(TRUE)

\* C10: between runs the two files are a consistent pair: neither exists, or
\* both do and the digest file holds the digest of the text file's content.
C10_FilesConsistentBetweenRuns ==
  pc \in {"start", "exited"} =>
    \/ fs[HASH_FILE] = None /\ fs[TEXT_FILE] = None
    \/ /\ fs[HASH_FILE] # None /\ fs[TEXT_FILE] # None
       /\ fs[HASH_FILE][1] = sha256(fs[TEXT_FILE][1])

====
